---- MODULE Spec2Model ----
(***************************************************************************)
(* Thumbnail fan-out pipeline of nzai/resize (src/main.go).                *)
(*                                                                         *)
(* One S3Event invocation screens every record of the batch, starts one    *)
(* onImageCreated goroutine per eligible record, each of which reads the   *)
(* image once and starts one createThumbnail goroutine per configured      *)
(* size.  Two sync.WaitGroup counters join the two levels.                 *)
(*                                                                         *)
(* Also modelled: readConfig and main (the configuration the workers get   *)
(* from the environment), the cancellation of the invocation's context,    *)
(* and the earlier handler of src/unnamed/part_000 and part_001.           *)
(*                                                                         *)
(* Strings are sequences of one-character strings, so that HasSuffix,      *)
(* ToLower, filepath.Ext, strings.Replace, the regular expression and      *)
(* Sprintf("%d") are computed and not assumed.                             *)
(***************************************************************************)
EXTENDS Integers, Sequences, FiniteSets, TLC

VARIABLES
    records,      \* s3Event.Records of the running invocation: [bucket, key]
    sizes,        \* s.config.Sizes: sequence of image.Point [X, Y]
    mainpc,       \* position of S3Event: "start", "loop", "wait", "returned"
    i,            \* index of the record the range loop looks at next
    wg,           \* counter of the outer sync.WaitGroup
    opc,          \* per record: position of its onImageCreated goroutine
    oresult,      \* per record: outcome of readImage
    twg,          \* per record: counter of thumbnailWaitGroup
    tpc,          \* per record, per size: position of createThumbnail
    tresult,      \* per record, per size: outcome of saveThumbnail
    disp,         \* per record: number of `go s.onImageCreated` statements run
    gets,         \* per record: number of GetObjectWithContext calls
    puts,         \* inputs of the PutObjectWithContext calls of this invocation
    putn,         \* per record, per size: number of PutObjectWithContext calls
    stored,       \* objects written by successful PUTs, over all invocations
    redelivered,  \* TRUE once the batch is a notification of a stored object
    skip,         \* per record: the "Ignore ..." line S3Event printed for it
    env,          \* the environment variables readConfig reads
    procpc,       \* position of main: "main", "serving", "exited"
    maxRetry,     \* config.MaxRetry
    cancelled     \* TRUE once ctx of the running invocation is done

vars == <<records, sizes, mainpc, i, wg, opc, oresult, twg, tpc, tresult,
          disp, gets, puts, putn, stored, redelivered,
          skip, env, procpc, maxRetry, cancelled>>

----------------------------------------------------------------------------
(* Bounds of the model *)

MaxRecords == 2

MaxSizes == 2

MaxPrefixLen == 3

MaxSizesLen == 4

----------------------------------------------------------------------------
(* Strings *)

Str4(a, b, c, d) == <<a, b, c, d>>

Digits == <<"0", "1", "2", "3", "4", "5", "6", "7", "8", "9">>

UpperChars == <<"A", "B", "C", "D", "E", "F", "G", "H", "I", "J", "K", "L", "M",
                "N", "O", "P", "Q", "R", "S", "T", "U", "V", "W", "X", "Y", "Z">>

LowerChars == <<"a", "b", "c", "d", "e", "f", "g", "h", "i", "j", "k", "l", "m",
                "n", "o", "p", "q", "r", "s", "t", "u", "v", "w", "x", "y", "z">>

IsDigit(c) == \E n \in 1..Len(Digits) : Digits[n] = c

ToLowerChar(c) ==
    IF \E n \in 1..Len(UpperChars) : UpperChars[n] = c
    THEN LowerChars[CHOOSE n \in 1..Len(UpperChars) : UpperChars[n] = c]
    ELSE c

\* strings.ToLower
ToLower(s) == [n \in 1..Len(s) |-> ToLowerChar(s[n])]

\* strings.HasSuffix
HasSuffix(s, suffix) ==
    /\ Len(s) >= Len(suffix)
    /\ SubSeq(s, Len(s) - Len(suffix) + 1, Len(s)) = suffix

\* strings.HasPrefix applied to s[n:]
HasPrefixAt(s, n, prefix) ==
    /\ n + Len(prefix) - 1 <= Len(s)
    /\ SubSeq(s, n, n + Len(prefix) - 1) = prefix

\* fmt.Sprintf("%d", n)
RECURSIVE Itoa(_)
Itoa(n) ==
    IF n < 0 THEN <<"-">> \o Itoa(-n)
    ELSE IF n < 10 THEN <<Digits[n + 1]>>
    ELSE Itoa(n \div 10) \o <<Digits[(n % 10) + 1]>>

\* filepath.Ext: scan back from the end while the byte is not '/', return
\* the suffix starting at the first '.' met, "" when none is met
RECURSIVE ExtFrom(_, _)
ExtFrom(path, n) ==
    IF n < 1 \/ path[n] = "/" THEN <<>>
    ELSE IF path[n] = "." THEN SubSeq(path, n, Len(path))
    ELSE ExtFrom(path, n - 1)

Ext(path) == ExtFrom(path, Len(path))

\* strings.Replace(s, old, new, -1) for a non-empty old: leftmost,
\* non-overlapping occurrences, scanning from position n
RECURSIVE ReplaceFrom(_, _, _, _)
ReplaceFrom(s, n, old, new) ==
    IF n > Len(s) THEN <<>>
    ELSE IF HasPrefixAt(s, n, old)
         THEN new \o ReplaceFrom(s, n + Len(old), old, new)
         ELSE <<s[n]>> \o ReplaceFrom(s, n + 1, old, new)

\* strings.Replace(s, "", new, -1): new goes before every character and
\* after the last one
RECURSIVE InsertFrom(_, _, _)
InsertFrom(s, n, new) ==
    IF n > Len(s) THEN new
    ELSE new \o <<s[n]>> \o InsertFrom(s, n + 1, new)

ReplaceAll(s, old, new) ==
    IF Len(old) = 0 THEN InsertFrom(s, 1, new) ELSE ReplaceFrom(s, 1, old, new)

----------------------------------------------------------------------------
(* sizePattern = regexp.MustCompile("(\\d+)x(\\d+)") *)

\* end of the run of digits that starts at n (first position past it)
RECURSIVE DigitsEnd(_, _)
DigitsEnd(s, n) ==
    IF n <= Len(s) /\ IsDigit(s[n]) THEN DigitsEnd(s, n + 1) ELSE n

\* the pattern matches at position n: \d+ (greedy), then 'x', then \d+
MatchAt(s, n) ==
    LET e == DigitsEnd(s, n) IN
    /\ e > n
    /\ e <= Len(s)
    /\ s[e] = "x"
    /\ DigitsEnd(s, e + 1) > e + 1

\* mutant: the pattern is "_(\\d+)x(\\d+)", the shape thumbnailKey writes
sizePatternMatchUnderscore(key) ==
    \E n \in 1..Len(key) : key[n] = "_" /\ MatchAt(key, n + 1)

\* sizePattern.Match: unanchored
sizePatternMatch(key) == \E n \in 1..Len(key) : MatchAt(key, n)

----------------------------------------------------------------------------
(* Imaging.thumbnailKey *)

\* mutant: the size is written with an upper-case 'X'
thumbnailKeyUpperX(key, size) ==
    LET ext == Ext(key) IN
    ReplaceAll(key, ext, <<"_">> \o Itoa(size.X) \o <<"X">> \o Itoa(size.Y) \o ext)

\* mutant: the format is "_%d%d%s", without the 'x' between the numbers
thumbnailKeyNoSeparator(key, size) ==
    LET ext == Ext(key) IN
    ReplaceAll(key, ext, <<"_">> \o Itoa(size.X) \o Itoa(size.Y) \o ext)

thumbnailKey(key, size) ==
    LET ext == Ext(key) IN
    ReplaceAll(key, ext, <<"_">> \o Itoa(size.X) \o <<"x">> \o Itoa(size.Y) \o ext)

----------------------------------------------------------------------------
(* The screening of S3Event's range loop, in the order of the source *)

IsDir(key) == HasSuffix(key, <<"/">>)

\* mutant: the extension is compared without strings.ToLower
IsJpgCaseSensitive(key) == HasSuffix(key, Str4(".", "j", "p", "g"))

IsJpg(key) == HasSuffix(ToLower(key), Str4(".", "j", "p", "g"))

\* mutant: the thumbnail test comes before the directory test
ScreenMarkerFirst(key) ==
    IF sizePatternMatch(key) THEN "thumbnail"
    ELSE IF IsDir(key) THEN "dir"
    ELSE IF ~IsJpg(key) THEN "unknown"
    ELSE "process"

Screen(key) ==
    IF IsDir(key) THEN "dir"
    ELSE IF sizePatternMatch(key) THEN "thumbnail"
    ELSE IF ~IsJpg(key) THEN "unknown"
    ELSE "process"

----------------------------------------------------------------------------
(* Inputs: the batches and the configurations the checks run over *)

PhotoJpg == <<"p", "h", "o", "t", "o", ".", "j", "p", "g">>

AJpg == <<"a", ".", "j", "p", "g">>

DirKey == <<"d", "i", "r", "/">>

MarkedJpg == <<"m", "y", "2", "x", "4", ".", "j", "p", "g">>

NotificationList ==
    << [bucket |-> "b2", key |-> AJpg],
       [bucket |-> "b1", key |-> DirKey],
       [bucket |-> "b1", key |-> PhotoJpg],
       [bucket |-> "b2", key |-> MarkedJpg] >>

\* the entries of NotificationList whose index is in picked, from n on
RECURSIVE Pick(_, _)
Pick(picked, n) ==
    IF n > Len(NotificationList) THEN <<>>
    ELSE (IF n \in picked THEN <<NotificationList[n]>> ELSE <<>>) \o Pick(picked, n + 1)

\* batches of up to MaxRecords of the notifications of NotificationList
Batches ==
    { Pick(picked, 1) : picked \in { q \in SUBSET (1..Len(NotificationList)) :
                                        Cardinality(q) <= MaxRecords } }

\* keys of single-record batches: every string over PrefixChars of up to
\* MaxPrefixLen characters, followed by one of Middles and one of Suffixes
PrefixChars == {"a", "1", "x", "/"}

Middles == { <<>>, Str4(".", "j", "p", "g"), Str4(".", "j", "p", "g") \o <<"/", "a">> }

Suffixes ==
    { <<>>, Str4(".", "j", "p", "g"), Str4(".", "J", "P", "G"),
      Str4(".", "p", "n", "g"), <<"/">> }

KeyInputs ==
    { p \o m \o s : p \in UNION { [1..n -> PrefixChars] : n \in 0..MaxPrefixLen },
                    m \in Middles, s \in Suffixes }

SingleBatches == { <<[bucket |-> "b1", key |-> k]>> : k \in KeyInputs }

\* size lists: the first entries of 100x100,200x200,300x300,... up to
\* MaxSizes of them, and a list that names one size twice
Pt(x, y) == [X |-> x, Y |-> y]

SizePool(n) == Pt(100 * n, 100 * n)

SizeConfigs ==
    { [n \in 1..len |-> SizePool(n)] : len \in 0..MaxSizes }
        \cup { <<Pt(200, 200), Pt(200, 200)>> }

----------------------------------------------------------------------------
(* readConfig *)

IsDigits(s) == Len(s) > 0 /\ \A n \in 1..Len(s) : IsDigit(s[n])

DigitVal(c) == (CHOOSE n \in 1..Len(Digits) : Digits[n] = c) - 1

\* the digits of s without the leading zeros
RECURSIVE TrimZeros(_)
TrimZeros(s) == IF Len(s) > 1 /\ s[1] = "0" THEN TrimZeros(Tail(s)) ELSE s

RECURSIVE DigitsVal(_)
DigitsVal(s) ==
    IF Len(s) = 0 THEN 0
    ELSE 10 * DigitsVal(SubSeq(s, 1, Len(s) - 1)) + DigitVal(s[Len(s)])

\* the digits of the largest int of a 64-bit platform, 1<<63 - 1
MaxInt64 == <<"9", "2", "2", "3", "3", "7", "2", "0", "3", "6",
              "8", "5", "4", "7", "7", "5", "8", "0", "7">>

\* a > b for digit strings of the same length
RECURSIVE DigitsGreater(_, _)
DigitsGreater(a, b) ==
    IF Len(a) = 0 THEN FALSE
    ELSE IF a[1] # b[1] THEN DigitVal(a[1]) > DigitVal(b[1])
    ELSE DigitsGreater(Tail(a), Tail(b))

\* the magnitude d (no leading zeros) does not fit an int; the negative
\* range reaches one further than the positive one
OutOfRange(d, neg) ==
    \/ Len(d) > Len(MaxInt64)
    \/ /\ Len(d) = Len(MaxInt64)
       /\ DigitsGreater(d, MaxInt64)
       /\ ~(neg /\ d = SubSeq(MaxInt64, 1, Len(MaxInt64) - 1) \o <<"8">>)

\* strconv.Atoi: an optional sign, then decimal digits only; err for
\* anything else and for a value out of the range of int.  The strings the
\* model draws are either out of that range or below 2^31.
Atoi(s) ==
    LET signed == Len(s) > 0 /\ s[1] \in {"+", "-"}
        neg == Len(s) > 0 /\ s[1] = "-"
        body == IF signed THEN Tail(s) ELSE s
    IN  IF ~IsDigits(body) \/ OutOfRange(TrimZeros(body), neg)
        THEN [err |-> TRUE, val |-> 0]
        ELSE [err |-> FALSE,
              val |-> IF neg THEN 0 - DigitsVal(TrimZeros(body))
                      ELSE DigitsVal(TrimZeros(body))]

\* first position past the match of the pattern that starts at n
MatchEnd(s, n) == DigitsEnd(s, DigitsEnd(s, n) + 1)

\* the match that starts at n as <<match, group 1, group 2>>
Submatch(s, n) ==
    << SubSeq(s, n, MatchEnd(s, n) - 1),
       SubSeq(s, n, DigitsEnd(s, n) - 1),
       SubSeq(s, DigitsEnd(s, n) + 1, MatchEnd(s, n) - 1) >>

\* sizePattern.FindAllStringSubmatch(s, -1) from position n on: leftmost
\* non-overlapping matches
RECURSIVE FindAllStringSubmatchFrom(_, _)
FindAllStringSubmatchFrom(s, n) ==
    IF n > Len(s) THEN <<>>
    ELSE IF MatchAt(s, n)
         THEN <<Submatch(s, n)>> \o FindAllStringSubmatchFrom(s, MatchEnd(s, n))
         ELSE FindAllStringSubmatchFrom(s, n + 1)

FindAllStringSubmatch(s) == FindAllStringSubmatchFrom(s, 1)

ConfigError == [err |-> TRUE, Sizes |-> <<>>, MaxRetry |-> 0]

\* readConfig, lines 63-111, on the environment e
readConfig(e) ==
    IF e.AccessKeyID = <<>> \/ e.SecretAccessKey = <<>> \/ e.Region = <<>> \/ e.Sizes = <<>>
    THEN ConfigError
    ELSE LET groups == FindAllStringSubmatch(e.Sizes)
             retries == Atoi(e.MaxRetries)
         IN  IF \E n \in 1..Len(groups) :
                    \/ Len(groups[n]) # 3
                    \/ Atoi(groups[n][2]).err
                    \/ Atoi(groups[n][3]).err
             THEN ConfigError
             ELSE [err |-> FALSE,
                   Sizes |-> [n \in 1..Len(groups) |->
                                Pt(Atoi(groups[n][2]).val, Atoi(groups[n][3]).val)],
                   MaxRetry |-> IF retries.err THEN 3 ELSE retries.val]

\* a value of Sizes that names the entries of the size list c, as
\* "WxH,WxH,..."; "," for the empty list
RECURSIVE SizesString(_)
SizesString(c) ==
    IF Len(c) = 0 THEN <<",">>
    ELSE Itoa(c[1].X) \o <<"x">> \o Itoa(c[1].Y)
            \o (IF Len(c) = 1 THEN <<>> ELSE <<",">> \o SizesString(Tail(c)))

\* an environment with every required variable set and MaxRetries unset
EnvOf(sizeString) ==
    [AccessKeyID |-> <<"k">>, SecretAccessKey |-> <<"s">>, Region |-> <<"r">>,
     Sizes |-> sizeString, MaxRetries |-> <<>>]

\* values of Sizes: every string over SizeChars of up to MaxSizesLen
\* characters, lists of two sizes, and a width that overflows int
SizeChars == {"0", "1", "x", ","}

TwoDistinctSizes == SizesString(<<Pt(100, 100), Pt(200, 200)>>)

TwoEqualSizes == SizesString(<<Pt(200, 200), Pt(200, 200)>>)

TooWide == <<"1">> \o MaxInt64 \o <<"x", "1">>

SizesInputs ==
    UNION { [1..n -> SizeChars] : n \in 0..MaxSizesLen }
        \cup { TwoDistinctSizes, TwoEqualSizes, TooWide }

\* values of MaxRetries: unset, numbers with and without sign, not a number
MaxRetriesInputs ==
    { <<>>, <<"0">>, <<"5">>, <<"+", "2">>, <<"-", "1">>, <<"-">>, <<"1", "x">>,
      <<"1">> \o MaxInt64 }

\* environments: one variable at a time differs from a complete environment
EnvInputs ==
    { [EnvOf(TwoDistinctSizes) EXCEPT !.Sizes = s] : s \in SizesInputs }
        \cup { [EnvOf(TwoDistinctSizes) EXCEPT !.MaxRetries = m] : m \in MaxRetriesInputs }
        \cup { [EnvOf(TwoDistinctSizes) EXCEPT !.AccessKeyID = <<>>],
               [EnvOf(TwoDistinctSizes) EXCEPT !.SecretAccessKey = <<>>],
               [EnvOf(TwoDistinctSizes) EXCEPT !.Region = <<>>] }

----------------------------------------------------------------------------
(* State machine *)

Recs == 1..Len(records)

Szs == 1..Len(sizes)

\* the per-invocation state on entry to S3Event with the batch b
Enter(b) ==
    /\ records' = b
    /\ mainpc' = "start"
    /\ i' = 1
    /\ wg' = 0
    /\ opc' = [r \in 1..Len(b) |-> "none"]
    /\ oresult' = [r \in 1..Len(b) |-> "none"]
    /\ twg' = [r \in 1..Len(b) |-> 0]
    /\ tpc' = [r \in 1..Len(b) |-> [s \in Szs |-> "none"]]
    /\ tresult' = [r \in 1..Len(b) |-> [s \in Szs |-> "none"]]
    /\ disp' = [r \in 1..Len(b) |-> 0]
    /\ gets' = [r \in 1..Len(b) |-> 0]
    /\ puts' = {}
    /\ putn' = [r \in 1..Len(b) |-> [s \in Szs |-> 0]]
    /\ skip' = [r \in 1..Len(b) |-> "none"]

\* a batch of the hand-picked notifications under any size list, or one
\* record with any key of KeyInputs under a list of at most one size
Inputs ==
    (Batches \X SizeConfigs)
        \cup (SingleBatches \X { c \in SizeConfigs : Len(c) <= 1 })

\* main has read the configuration of the environment e and serves; the
\* first invocation of S3Event has the batch b
Serving(b, e) ==
    /\ records = b
    /\ env = e
    /\ sizes = readConfig(e).Sizes
    /\ maxRetry = readConfig(e).MaxRetry
    /\ procpc = "serving"
    /\ cancelled = FALSE
    /\ skip = [r \in Recs |-> "none"]
    /\ mainpc = "start"
    /\ i = 1
    /\ wg = 0
    /\ opc = [r \in Recs |-> "none"]
    /\ oresult = [r \in Recs |-> "none"]
    /\ twg = [r \in Recs |-> 0]
    /\ tpc = [r \in Recs |-> [s \in Szs |-> "none"]]
    /\ tresult = [r \in Recs |-> [s \in Szs |-> "none"]]
    /\ disp = [r \in Recs |-> 0]
    /\ gets = [r \in Recs |-> 0]
    /\ puts = {}
    /\ putn = [r \in Recs |-> [s \in Szs |-> 0]]
    /\ stored = {}
    /\ redelivered = FALSE

Init == \E in \in Inputs : Serving(in[1], EnvOf(SizesString(in[2])))

\* the process starts in an environment of EnvInputs; the batch of the
\* first invocation, if main gets to serve it, is {dir/, photo.jpg}
ConfigBatch == <<NotificationList[2], NotificationList[3]>>

ConfigInit ==
    /\ env \in EnvInputs
    /\ records = ConfigBatch
    /\ sizes = <<>>
    /\ maxRetry = 0
    /\ procpc = "main"
    /\ cancelled = FALSE
    /\ skip = [r \in Recs |-> "none"]
    /\ mainpc = "start"
    /\ i = 1
    /\ wg = 0
    /\ opc = [r \in Recs |-> "none"]
    /\ oresult = [r \in Recs |-> "none"]
    /\ twg = [r \in Recs |-> 0]
    /\ tpc = [r \in Recs |-> <<>>]
    /\ tresult = [r \in Recs |-> <<>>]
    /\ disp = [r \in Recs |-> 0]
    /\ gets = [r \in Recs |-> 0]
    /\ puts = {}
    /\ putn = [r \in Recs |-> <<>>]
    /\ stored = {}
    /\ redelivered = FALSE

\* keys and size lists for thumbnailKey: one record, two sizes whose
\* widths and heights are drawn from SizeDims, digit strings that are
\* prefixes of one another
PairKeys ==
    { AJpg, PhotoJpg, DirKey, <<"1">> \o Str4(".", "j", "p", "g"),
      <<"a", "/", "1">> \o Str4(".", "J", "P", "G"),
      Str4(".", "j", "p", "g") \o Str4(".", "j", "p", "g") }

SizeDims == <<0, 1, 10, 11>>

\* the n-th of the points SizeDims x SizeDims
SizePoint(n) ==
    Pt(SizeDims[((n - 1) \div Len(SizeDims)) + 1], SizeDims[((n - 1) % Len(SizeDims)) + 1])

SizePairs ==
    { <<SizePoint(q[1]), SizePoint(q[2])>> :
        q \in { pr \in (1..(Len(SizeDims) * Len(SizeDims))) \X (1..(Len(SizeDims) * Len(SizeDims))) :
                  pr[1] <= pr[2] } }

PairInit ==
    \E k \in PairKeys : \E c \in SizePairs :
        Serving(<<[bucket |-> "b1", key |-> k]>>, EnvOf(SizesString(c)))

\* main, lines 32-48, with the first invocation already delivered:
\* readConfig fails and main returns, or lambda.Start serves S3Event
main ==
    /\ procpc = "main"
    /\ IF readConfig(env).err
       THEN /\ procpc' = "exited"
            /\ UNCHANGED <<sizes, maxRetry, tpc, tresult, putn>>
       ELSE /\ procpc' = "serving"
            /\ sizes' = readConfig(env).Sizes
            /\ maxRetry' = readConfig(env).MaxRetry
            /\ tpc' = [r \in Recs |-> [s \in 1..Len(readConfig(env).Sizes) |-> "none"]]
            /\ tresult' = [r \in Recs |-> [s \in 1..Len(readConfig(env).Sizes) |-> "none"]]
            /\ putn' = [r \in Recs |-> [s \in 1..Len(readConfig(env).Sizes) |-> 0]]
    /\ UNCHANGED <<records, mainpc, i, wg, opc, oresult, twg, disp, gets, puts,
                   stored, redelivered, skip, env, cancelled>>

\* position of the range loop after the record at i
AfterRecord == IF i < Len(records) THEN "loop" ELSE "wait"

\* S3Event, lines 127-128: wg.Add(len(s3Event.Records))
S3EventStart ==
    /\ procpc = "serving"
    /\ mainpc = "start"
    /\ wg' = wg + Len(records)
    /\ mainpc' = IF Len(records) = 0 THEN "wait" ELSE "loop"
    /\ UNCHANGED <<records, sizes, i, opc, oresult, twg, tpc, tresult,
                   disp, gets, puts, putn, stored, redelivered,
                   skip, env, procpc, maxRetry, cancelled>>

\* mutant: a screened-out record is passed over without wg.Done()
S3EventSkipNoDone ==
    /\ mainpc = "loop"
    /\ Screen(records[i].key) # "process"
    /\ skip' = [skip EXCEPT ![i] = Screen(records[i].key)]
    /\ i' = i + 1
    /\ mainpc' = AfterRecord
    /\ UNCHANGED <<records, sizes, wg, opc, oresult, twg, tpc, tresult,
                   disp, gets, puts, putn, stored, redelivered,
                   env, procpc, maxRetry, cancelled>>

\* S3Event, lines 130-151: a record that is screened out
S3EventSkip ==
    /\ mainpc = "loop"
    /\ Screen(records[i].key) # "process"
    /\ skip' = [skip EXCEPT ![i] = Screen(records[i].key)]
    /\ wg' = wg - 1
    /\ i' = i + 1
    /\ mainpc' = AfterRecord
    /\ UNCHANGED <<records, sizes, opc, oresult, twg, tpc, tresult,
                   disp, gets, puts, putn, stored, redelivered,
                   env, procpc, maxRetry, cancelled>>

\* mutant: the size-workers are started together with the object-worker,
\* before the image is read
S3EventDispatchStartsSizes ==
    /\ mainpc = "loop"
    /\ Screen(records[i].key) = "process"
    /\ opc' = [opc EXCEPT ![i] = "fetch"]
    /\ disp' = [disp EXCEPT ![i] = @ + 1]
    /\ tpc' = [tpc EXCEPT ![i] = [s \in Szs |-> "start"]]
    /\ i' = i + 1
    /\ mainpc' = AfterRecord
    /\ UNCHANGED <<records, sizes, wg, oresult, twg, tresult,
                   gets, puts, putn, stored, redelivered,
                   skip, env, procpc, maxRetry, cancelled>>

\* S3Event, lines 153-155: go s.onImageCreated(ctx, record, wg)
S3EventDispatch ==
    /\ mainpc = "loop"
    /\ Screen(records[i].key) = "process"
    /\ opc' = [opc EXCEPT ![i] = "fetch"]
    /\ disp' = [disp EXCEPT ![i] = @ + 1]
    /\ i' = i + 1
    /\ mainpc' = AfterRecord
    /\ UNCHANGED <<records, sizes, wg, oresult, twg, tpc, tresult,
                   gets, puts, putn, stored, redelivered,
                   skip, env, procpc, maxRetry, cancelled>>

\* S3Event, line 157: wg.Wait() returns when the counter is zero
S3EventReturn ==
    /\ mainpc = "wait"
    /\ wg = 0
    /\ mainpc' = "returned"
    /\ UNCHANGED <<records, sizes, i, wg, opc, oresult, twg, tpc, tresult,
                   disp, gets, puts, putn, stored, redelivered,
                   skip, env, procpc, maxRetry, cancelled>>

\* outcomes of readImage: GetObjectWithContext fails, jpeg.Decode fails,
\* the call is given up because ctx is done, or the image is returned
ReadOutcomes == {"geterr", "decodeerr", "canceled", "ok"}

\* mutant: a failed readImage gives up the whole batch: the object-workers
\* that have not read their image yet are dropped
onImageCreatedFailDropsOthers(r, out) ==
    /\ opc[r] = "fetch"
    /\ out # "ok"
    /\ gets' = [gets EXCEPT ![r] = @ + 1]
    /\ oresult' = [oresult EXCEPT ![r] = out]
    /\ opc' = [q \in Recs |-> IF opc[q] = "fetch" THEN "done" ELSE opc[q]]
    /\ wg' = wg - Cardinality({q \in Recs : opc[q] = "fetch"})
    /\ UNCHANGED <<records, sizes, mainpc, i, twg, tpc, tresult,
                   disp, puts, putn, stored, redelivered,
                   skip, env, procpc, maxRetry, cancelled>>

\* mutant: the return after a failed readImage is missing, so the
\* size-workers are started on the nil image all the same
onImageCreatedFailFansOut(r, out) ==
    /\ opc[r] = "fetch"
    /\ out # "ok"
    /\ gets' = [gets EXCEPT ![r] = @ + 1]
    /\ oresult' = [oresult EXCEPT ![r] = out]
    /\ twg' = [twg EXCEPT ![r] = @ + Len(sizes)]
    /\ tpc' = [tpc EXCEPT ![r] = [s \in Szs |-> "start"]]
    /\ opc' = [opc EXCEPT ![r] = "wait"]
    /\ UNCHANGED <<records, sizes, mainpc, i, wg, tresult,
                   disp, puts, putn, stored, redelivered,
                   skip, env, procpc, maxRetry, cancelled>>

\* mutant: wg.Done() as the last statement instead of deferred, so that the
\* early return of a failed readImage skips it
onImageCreatedFailNoDone(r, out) ==
    /\ opc[r] = "fetch"
    /\ out # "ok"
    /\ gets' = [gets EXCEPT ![r] = @ + 1]
    /\ oresult' = [oresult EXCEPT ![r] = out]
    /\ opc' = [opc EXCEPT ![r] = "done"]
    /\ UNCHANGED <<records, sizes, mainpc, i, wg, twg, tpc, tresult,
                   disp, puts, putn, stored, redelivered,
                   skip, env, procpc, maxRetry, cancelled>>

\* onImageCreated, lines 165-169: readImage fails; the deferred wg.Done runs
onImageCreatedFail(r, out) ==
    /\ opc[r] = "fetch"
    /\ out # "ok"
    /\ cancelled <=> out = "canceled"
    /\ gets' = [gets EXCEPT ![r] = @ + 1]
    /\ oresult' = [oresult EXCEPT ![r] = out]
    /\ opc' = [opc EXCEPT ![r] = "done"]
    /\ wg' = wg - 1
    /\ UNCHANGED <<records, sizes, mainpc, i, twg, tpc, tresult,
                   disp, puts, putn, stored, redelivered,
                   skip, env, procpc, maxRetry, cancelled>>

\* onImageCreated, lines 165-176: readImage succeeds, which it does only
\* while ctx is not done; one createThumbnail goroutine per entry of
\* s.config.Sizes, thumbnailWaitGroup.Add(len)
onImageCreatedFanOut(r) ==
    /\ opc[r] = "fetch"
    /\ ~cancelled
    /\ gets' = [gets EXCEPT ![r] = @ + 1]
    /\ oresult' = [oresult EXCEPT ![r] = "ok"]
    /\ twg' = [twg EXCEPT ![r] = @ + Len(sizes)]
    /\ tpc' = [tpc EXCEPT ![r] = [s \in Szs |-> "start"]]
    /\ opc' = [opc EXCEPT ![r] = "wait"]
    /\ UNCHANGED <<records, sizes, mainpc, i, wg, tresult,
                   disp, puts, putn, stored, redelivered,
                   skip, env, procpc, maxRetry, cancelled>>

\* mutant: the object-worker finishes without thumbnailWaitGroup.Wait()
onImageCreatedDoneNoWait(r) ==
    /\ opc[r] = "wait"
    /\ opc' = [opc EXCEPT ![r] = "done"]
    /\ wg' = wg - 1
    /\ UNCHANGED <<records, sizes, mainpc, i, oresult, twg, tpc, tresult,
                   disp, gets, puts, putn, stored, redelivered,
                   skip, env, procpc, maxRetry, cancelled>>

\* onImageCreated, lines 178-179 and the defer of line 162:
\* thumbnailWaitGroup.Wait() returns, wg.Done()
onImageCreatedDone(r) ==
    /\ opc[r] = "wait"
    /\ twg[r] = 0
    /\ opc' = [opc EXCEPT ![r] = "done"]
    /\ wg' = wg - 1
    /\ UNCHANGED <<records, sizes, mainpc, i, oresult, twg, tpc, tresult,
                   disp, gets, puts, putn, stored, redelivered,
                   skip, env, procpc, maxRetry, cancelled>>

\* mutant: an encode error of one size-worker ends its siblings that have
\* not reached their PUT
createThumbnailAbortsSiblings(r, s, encoded) ==
    /\ tpc[r][s] = "start"
    /\ IF encoded
       THEN /\ tpc' = [tpc EXCEPT ![r][s] = "put"]
            /\ UNCHANGED <<tresult, twg>>
       ELSE /\ tpc' = [tpc EXCEPT ![r] =
                        [u \in Szs |-> IF tpc[r][u] = "start" THEN "done" ELSE tpc[r][u]]]
            /\ tresult' = [tresult EXCEPT ![r][s] = "encodeerr"]
            /\ twg' = [twg EXCEPT ![r] = @ - Cardinality({u \in Szs : tpc[r][u] = "start"})]
    /\ UNCHANGED <<records, sizes, mainpc, i, wg, opc, oresult,
                   disp, gets, puts, putn, stored, redelivered,
                   skip, env, procpc, maxRetry, cancelled>>

\* createThumbnail, lines 216-222 with saveThumbnail, lines 236-241:
\* resize, derive the key, encode; an encode error ends the worker
createThumbnail(r, s, encoded) ==
    /\ tpc[r][s] = "start"
    /\ IF encoded
       THEN /\ tpc' = [tpc EXCEPT ![r][s] = "put"]
            /\ UNCHANGED <<tresult, twg>>
       ELSE /\ tpc' = [tpc EXCEPT ![r][s] = "done"]
            /\ tresult' = [tresult EXCEPT ![r][s] = "encodeerr"]
            /\ twg' = [twg EXCEPT ![r] = @ - 1]
    /\ UNCHANGED <<records, sizes, mainpc, i, wg, opc, oresult,
                   disp, gets, puts, putn, stored, redelivered,
                   skip, env, procpc, maxRetry, cancelled>>

\* mutant: every size-worker sees the first entry of the size list
PutInputFirstSize(r, s) ==
    [ rec |-> r, size |-> s,
      bucket |-> records[r].bucket,
      key |-> ReplaceAll(records[r].key, Ext(records[r].key),
                         <<"_">> \o Itoa(sizes[1].X) \o <<"x">> \o Itoa(sizes[1].Y)
                             \o Ext(records[r].key)),
      class |-> "STANDARD",
      kind |-> "thumbnail" ]

\* mutant: the PutObjectInput has no Metadata field
PutInputNoMetadata(r, s) ==
    [ rec |-> r, size |-> s,
      bucket |-> records[r].bucket,
      key |-> thumbnailKey(records[r].key, sizes[s]),
      class |-> "STANDARD",
      kind |-> "" ]

\* the PutObjectInput of saveThumbnail, lines 243-249
PutInput(r, s) ==
    [ rec |-> r, size |-> s,
      bucket |-> records[r].bucket,
      key |-> thumbnailKey(records[r].key, sizes[s]),
      class |-> "STANDARD",
      kind |-> "thumbnail" ]

\* mutant: the PUT is made with context.Background() instead of ctx
saveThumbnailBackground(r, s, ok) ==
    /\ tpc[r][s] = "put"
    /\ puts' = puts \cup {PutInput(r, s)}
    /\ putn' = [putn EXCEPT ![r][s] = @ + 1]
    /\ stored' = IF ok
                 THEN stored \cup {[bucket |-> PutInput(r, s).bucket,
                                    key |-> PutInput(r, s).key]}
                 ELSE stored
    /\ tresult' = [tresult EXCEPT ![r][s] = IF ok THEN "ok" ELSE "puterr"]
    /\ tpc' = [tpc EXCEPT ![r][s] = "done"]
    /\ twg' = [twg EXCEPT ![r] = @ - 1]
    /\ UNCHANGED <<records, sizes, mainpc, i, wg, opc, oresult,
                   disp, gets, redelivered,
                   skip, env, procpc, maxRetry, cancelled>>

\* saveThumbnail, lines 243-255, and createThumbnail, lines 223-230:
\* PutObjectWithContext(ctx, ...) returns, with an error when ctx is done;
\* the deferred wg.Done runs
saveThumbnail(r, s, ok) ==
    /\ tpc[r][s] = "put"
    /\ ok => ~cancelled
    /\ puts' = puts \cup {PutInput(r, s)}
    /\ putn' = [putn EXCEPT ![r][s] = @ + 1]
    /\ stored' = IF ok
                 THEN stored \cup {[bucket |-> PutInput(r, s).bucket,
                                    key |-> PutInput(r, s).key]}
                 ELSE stored
    /\ tresult' = [tresult EXCEPT ![r][s] =
                     IF ok THEN "ok" ELSE IF cancelled THEN "canceled" ELSE "puterr"]
    /\ tpc' = [tpc EXCEPT ![r][s] = "done"]
    /\ twg' = [twg EXCEPT ![r] = @ - 1]
    /\ UNCHANGED <<records, sizes, mainpc, i, wg, opc, oresult,
                   disp, gets, redelivered,
                   skip, env, procpc, maxRetry, cancelled>>

\* the storage service notifies the handler of an object the pipeline wrote:
\* a new invocation of S3Event whose batch is that one record
Redeliver ==
    /\ mainpc = "returned"
    /\ \E n \in stored : Enter(<<n>>)
    /\ redelivered' = TRUE
    /\ cancelled' = FALSE
    /\ UNCHANGED <<sizes, stored, env, procpc, maxRetry>>

\* the context of the running invocation is cancelled or its deadline
\* passes
Cancel ==
    /\ procpc = "serving"
    /\ mainpc # "returned"
    /\ ~cancelled
    /\ cancelled' = TRUE
    /\ UNCHANGED <<records, sizes, mainpc, i, wg, opc, oresult, twg, tpc, tresult,
                   disp, gets, puts, putn, stored, redelivered,
                   skip, env, procpc, maxRetry>>

\* the steps of S3Event itself
MainStep ==
    \/ S3EventStart
    \/ S3EventSkip
    \/ S3EventDispatch
    \/ S3EventReturn

\* the steps of the goroutines S3Event and onImageCreated start
WorkerStep ==
    \/ \E r \in Recs : \E out \in ReadOutcomes : onImageCreatedFail(r, out)
    \/ \E r \in Recs : onImageCreatedFanOut(r)
    \/ \E r \in Recs : onImageCreatedDone(r)
    \/ \E r \in Recs : \E s \in Szs : \E encoded \in BOOLEAN : createThumbnail(r, s, encoded)
    \/ \E r \in Recs : \E s \in Szs : \E ok \in BOOLEAN : saveThumbnail(r, s, ok)

Step == MainStep \/ WorkerStep

Next == Step \/ Redeliver

Spec == Init /\ [][Next]_vars

\* batches with two objects under at most one size, batches with one
\* object under every size list
CancelInputs ==
    { in \in Batches \X SizeConfigs :
        \/ Len(in[2]) <= 1
        \/ Cardinality({ r \in 1..Len(in[1]) : Screen(in[1][r].key) = "process" }) <= 1 }

CancelInit == \E in \in CancelInputs : Serving(in[1], EnvOf(SizesString(in[2])))

\* invocations whose context can be cancelled at any moment
CancelNext == Next \/ Cancel

CancelSpec == CancelInit /\ [][CancelNext]_vars /\ WF_vars(Step)

\* the process from its start: main, then the invocations
ConfigNext == main \/ Next

ConfigSpec == ConfigInit /\ [][ConfigNext]_vars

\* one object under every pair of sizes of SizePairs
PairSpec == PairInit /\ [][Next]_vars

\* the batches of NotificationList under every size list
FairInit == Init /\ records \in Batches

\* the Go scheduler runs every runnable goroutine and every storage call
\* returns: some enabled step of the invocation is eventually taken
FairSpec == FairInit /\ [][Next]_vars /\ WF_vars(Step)

----------------------------------------------------------------------------
(* The earlier handler: handler and onFileCreated of part_000 and part_001. *)
(* One goroutine per record that is not a directory; it sets up its own     *)
(* client, reads the image and saves the sizes one after the other.  opc is *)
(* "setup", "fetch", "save", then "done" after wg.Done() or "returned"      *)
(* after a return that does not reach it; tpc[r][s] is "done" once size s   *)
(* is saved.                                                                *)

\* objectKeyWithSize, part_000 lines 198-201
objectKeyWithSize(key, size) ==
    LET ext == Ext(key) IN
    ReplaceAll(key, ext,
               <<"_">> \o Itoa(size.X) \o <<"x">> \o Itoa(size.Y) \o <<".">> \o ext)

\* the PutObjectInput of saveImage, part_000 lines 184-189
saveImageInput(r, s) ==
    [ rec |-> r, size |-> s,
      bucket |-> records[r].bucket,
      key |-> objectKeyWithSize(records[r].key, sizes[s]),
      class |-> "STANDARD",
      kind |-> "" ]

\* environments of the earlier handler: every size list, and one without
\* Region, for which readConfig fails in every onFileCreated
LegacyEnvs ==
    { EnvOf(SizesString(c)) : c \in SizeConfigs }
        \cup { [EnvOf(TwoDistinctSizes) EXCEPT !.Region = <<>>] }

\* main is lambda.Start(handler): no configuration is read before the
\* first invocation
LegacyInit == \E b \in Batches : \E e \in LegacyEnvs : Serving(b, e)

\* handler, part_000 lines 40-41: wg.Add(len(s3Event.Records))
handlerStart ==
    /\ mainpc = "start"
    /\ wg' = wg + Len(records)
    /\ mainpc' = IF Len(records) = 0 THEN "wait" ELSE "loop"
    /\ UNCHANGED <<records, sizes, i, opc, oresult, twg, tpc, tresult,
                   disp, gets, puts, putn, stored, redelivered,
                   skip, env, procpc, maxRetry, cancelled>>

\* handler, part_000 lines 45-50: a key that ends with '/'
handlerSkip ==
    /\ mainpc = "loop"
    /\ IsDir(records[i].key)
    /\ skip' = [skip EXCEPT ![i] = "dir"]
    /\ wg' = wg - 1
    /\ i' = i + 1
    /\ mainpc' = AfterRecord
    /\ UNCHANGED <<records, sizes, opc, oresult, twg, tpc, tresult,
                   disp, gets, puts, putn, stored, redelivered,
                   env, procpc, maxRetry, cancelled>>

\* handler, part_000 line 52: go onFileCreated(ctx, record, wg)
handlerDispatch ==
    /\ mainpc = "loop"
    /\ ~IsDir(records[i].key)
    /\ opc' = [opc EXCEPT ![i] = "setup"]
    /\ disp' = [disp EXCEPT ![i] = @ + 1]
    /\ i' = i + 1
    /\ mainpc' = AfterRecord
    /\ UNCHANGED <<records, sizes, wg, oresult, twg, tpc, tresult,
                   gets, puts, putn, stored, redelivered,
                   skip, env, procpc, maxRetry, cancelled>>

\* handler, part_000 line 54: wg.Wait() returns when the counter is zero
handlerReturn ==
    /\ mainpc = "wait"
    /\ wg = 0
    /\ mainpc' = "returned"
    /\ UNCHANGED <<records, sizes, i, wg, opc, oresult, twg, tpc, tresult,
                   disp, gets, puts, putn, stored, redelivered,
                   skip, env, procpc, maxRetry, cancelled>>

\* onFileCreated, part_000 lines 59-75: readConfig fails for the
\* environment, or session.NewSession fails, and the function returns; or
\* the client is there
onFileCreatedSetup(r, sessionOk) ==
    /\ opc[r] = "setup"
    /\ IF readConfig(env).err
       THEN /\ oresult' = [oresult EXCEPT ![r] = "configerr"]
            /\ opc' = [opc EXCEPT ![r] = "returned"]
       ELSE IF ~sessionOk
       THEN /\ oresult' = [oresult EXCEPT ![r] = "sessionerr"]
            /\ opc' = [opc EXCEPT ![r] = "returned"]
       ELSE /\ opc' = [opc EXCEPT ![r] = "fetch"]
            /\ UNCHANGED oresult
    /\ UNCHANGED <<records, sizes, mainpc, i, wg, twg, tpc, tresult,
                   disp, gets, puts, putn, stored, redelivered,
                   skip, env, procpc, maxRetry, cancelled>>

\* onFileCreated, part_000 lines 83-87: readImage; on its error the
\* function returns
onFileCreatedRead(r, out) ==
    /\ opc[r] = "fetch"
    /\ out \in {"geterr", "decodeerr", "ok"}
    /\ gets' = [gets EXCEPT ![r] = @ + 1]
    /\ oresult' = [oresult EXCEPT ![r] = out]
    /\ opc' = [opc EXCEPT ![r] = IF out = "ok" THEN "save" ELSE "returned"]
    /\ UNCHANGED <<records, sizes, mainpc, i, wg, twg, tpc, tresult,
                   disp, puts, putn, stored, redelivered,
                   skip, env, procpc, maxRetry, cancelled>>

\* the size the loop of onFileCreated is at: the first one not saved
NextSize(r) == Cardinality({ s \in Szs : tpc[r][s] = "done" }) + 1

\* onFileCreated, part_000 lines 89-103 with saveImage, lines 175-196: one
\* turn of the loop over conf.Sizes; on an encode or PUT error the function
\* returns
onFileCreatedSave(r, out) ==
    /\ opc[r] = "save"
    /\ NextSize(r) <= Len(sizes)
    /\ out \in {"encodeerr", "puterr", "ok"}
    /\ tresult' = [tresult EXCEPT ![r][NextSize(r)] = out]
    /\ IF out = "encodeerr"
       THEN UNCHANGED <<puts, putn>>
       ELSE /\ puts' = puts \cup {saveImageInput(r, NextSize(r))}
            /\ putn' = [putn EXCEPT ![r][NextSize(r)] = @ + 1]
    /\ stored' = IF out = "ok"
                 THEN stored \cup {[bucket |-> saveImageInput(r, NextSize(r)).bucket,
                                    key |-> saveImageInput(r, NextSize(r)).key]}
                 ELSE stored
    /\ IF out = "ok"
       THEN /\ tpc' = [tpc EXCEPT ![r][NextSize(r)] = "done"]
            /\ UNCHANGED opc
       ELSE /\ opc' = [opc EXCEPT ![r] = "returned"]
            /\ UNCHANGED tpc
    /\ UNCHANGED <<records, sizes, mainpc, i, wg, oresult, twg,
                   disp, gets, redelivered,
                   skip, env, procpc, maxRetry, cancelled>>

\* onFileCreated, part_000 line 105: wg.Done(), the last statement
onFileCreatedDone(r) ==
    /\ opc[r] = "save"
    /\ NextSize(r) > Len(sizes)
    /\ opc' = [opc EXCEPT ![r] = "done"]
    /\ wg' = wg - 1
    /\ UNCHANGED <<records, sizes, mainpc, i, oresult, twg, tpc, tresult,
                   disp, gets, puts, putn, stored, redelivered,
                   skip, env, procpc, maxRetry, cancelled>>

LegacyNext ==
    \/ handlerStart
    \/ handlerSkip
    \/ handlerDispatch
    \/ handlerReturn
    \/ \E r \in Recs : \E sessionOk \in BOOLEAN : onFileCreatedSetup(r, sessionOk)
    \/ \E r \in Recs : \E out \in {"geterr", "decodeerr", "ok"} : onFileCreatedRead(r, out)
    \/ \E r \in Recs : \E out \in {"encodeerr", "puterr", "ok"} : onFileCreatedSave(r, out)
    \/ \E r \in Recs : onFileCreatedDone(r)

LegacySpec == LegacyInit /\ [][LegacyNext]_vars

----------------------------------------------------------------------------
(* Notions the properties are stated in *)

\* some substring of key is a digit, 'x', a digit
ContainsMarker(key) ==
    \E n \in 1..Len(key) :
        /\ n + 2 <= Len(key)
        /\ IsDigit(key[n]) /\ key[n + 1] = "x" /\ IsDigit(key[n + 2])

\* a goroutine that is neither unstarted nor finished
Running(r) ==
    \/ opc[r] \in {"fetch", "wait"}
    \/ \E s \in Szs : tpc[r][s] \in {"start", "put"}

PutsOf(r) == { p \in puts : p.rec = r }

PutAt(r, s) == \E p \in puts : p.rec = r /\ p.size = s

Failed(r) == oresult[r] \in {"geterr", "decodeerr"}

----------------------------------------------------------------------------
(* C1: when S3Event has returned, every object-worker and every size-worker *)
(* of the batch has finished, and no worker step can be taken any more: no  *)
(* fetch, resize, encode or PUT is in flight or starts after the return.    *)
C1_NoEarlyReturn ==
    mainpc = "returned" =>
        /\ \A r \in Recs : ~Running(r)
        /\ \A r \in Recs : disp[r] > 0 => opc[r] = "done"
        /\ ~ENABLED WorkerStep

\* a batch of two objects has returned, one with a stored and a failed PUT
C1_Witness ==
    /\ mainpc = "returned"
    /\ \E r, q \in Recs :
        /\ r # q /\ oresult[r] = "ok" /\ oresult[q] = "ok"
        /\ \E s, u \in Szs : tresult[r][s] = "ok" /\ tresult[r][u] = "puterr"

(* C2: every invocation of S3Event returns, whatever the outcomes of the    *)
(* fetches, decodes, encodes and puts; no WaitGroup counter goes negative   *)
(* (the one panic of the handler); with no record the handler is at once at *)
(* a Wait that does not block.                                              *)
C2_AlwaysReturns ==
    /\ [](wg >= 0 /\ \A r \in Recs : twg[r] >= 0)
    /\ [](Len(records) = 0 /\ mainpc = "wait" => wg = 0)
    /\ (mainpc = "start") ~> (mainpc = "returned")

\* a batch has returned in which a fetch, a decode, an encode and a put failed
C2_Witness ==
    /\ mainpc = "returned"
    /\ \E r, q \in Recs :
        /\ oresult[r] \in {"geterr", "decodeerr"}
        /\ \E s, u \in Szs : tresult[q][s] = "encodeerr" /\ tresult[q][u] = "puterr"

\* the records of the batch that S3Event dispatches, by the words of the
\* specification: no trailing '/', no size marker, extension .jpg in any case
Eligible(key) ==
    /\ Len(key) = 0 \/ key[Len(key)] # "/"
    /\ ~ContainsMarker(key)
    /\ ToLower(Ext(key)) = Str4(".", "j", "p", "g")

\* "_WxH" for a size
Marker(size) == <<"_">> \o Itoa(size.X) \o <<"x">> \o Itoa(size.Y)

\* the object a successful PUT of size-worker (r, s) leaves in storage
Object(r, s) ==
    [bucket |-> records[r].bucket, key |-> thumbnailKey(records[r].key, sizes[s])]

(* C3 as stated: at the return of a batch in which the fetch or decode of   *)
(* one object failed, every other eligible record was fetched and every one *)
(* of them that was read has a PUT attempt for every configured size.       *)
C3_Original ==
    mainpc = "returned" =>
        \A r \in Recs : Failed(r) =>
            \A q \in Recs \ {r} : Eligible(records[q].key) =>
                /\ gets[q] = 1
                /\ oresult[q] = "ok" => \A s \in Szs : PutAt(q, s)

(* C3 amended: ... every other eligible record was fetched, and every one   *)
(* of them that was read had a size-worker run for every configured size    *)
(* and has a PUT attempt for every size whose encode succeeded.             *)
C3_FailureIsolationAcrossObjects ==
    mainpc = "returned" =>
        \A r \in Recs : Failed(r) =>
            \A q \in Recs \ {r} : Eligible(records[q].key) =>
                /\ gets[q] = 1
                /\ oresult[q] = "ok" =>
                     \A s \in Szs :
                        /\ tresult[q][s] # "none"
                        /\ tresult[q][s] # "encodeerr" => PutAt(q, s)

\* the first object failed to decode, and the second was read and put under
\* both sizes
C3_Witness ==
    /\ mainpc = "returned"
    /\ Len(records) = 2 /\ Len(sizes) = 2
    /\ oresult[1] = "decodeerr"
    /\ oresult[2] = "ok"
    /\ \A s \in Szs : PutAt(2, s)

(* C4 as stated: at the return, for every size-worker that failed at encode *)
(* or PUT, every sibling of the same object has made its PUT, a sibling PUT *)
(* that succeeded is stored under its derived key, and the object-worker is *)
(* done.                                                                    *)
C4_Original ==
    mainpc = "returned" =>
        \A r \in Recs : \A s \in Szs : tresult[r][s] \in {"encodeerr", "puterr"} =>
            /\ opc[r] = "done"
            /\ \A u \in Szs \ {s} :
                /\ PutAt(r, u)
                /\ tresult[r][u] = "ok" => Object(r, u) \in stored

(* C4 amended: ... every sibling of the same object whose own encode        *)
(* succeeded has made its PUT, a sibling PUT that succeeded is stored under *)
(* its derived key, and the object-worker is done.                          *)
C4_FailureIsolationAcrossSizes ==
    mainpc = "returned" =>
        \A r \in Recs : \A s \in Szs : tresult[r][s] \in {"encodeerr", "puterr"} =>
            /\ opc[r] = "done"
            /\ \A u \in Szs \ {s} :
                /\ tpc[r][u] = "done"
                /\ tresult[r][u] # "encodeerr" => PutAt(r, u)
                /\ tresult[r][u] = "ok" => Object(r, u) \in stored

\* the first size-worker failed at encode, the second one stored its object
C4_Witness ==
    /\ mainpc = "returned"
    /\ \E r \in Recs :
        /\ Len(sizes) = 2
        /\ tresult[r][1] = "encodeerr"
        /\ tresult[r][2] = "ok"
        /\ Object(r, 2) \in stored

(* C5: an object whose fetch or decode failed has no size-worker and no    *)
(* PUT, its object-worker is done and counted by the outer WaitGroup, whose *)
(* counter is the number of records not yet skipped or finished, so that    *)
(* S3Event returns once the other workers are done.                         *)
C5_ReadFailureSpawnsNothing ==
    /\ \A r \in Recs : Failed(r) =>
          /\ \A s \in Szs : tpc[r][s] = "none" /\ putn[r][s] = 0
          /\ PutsOf(r) = {}
          /\ twg[r] = 0
          /\ opc[r] = "done"
    /\ mainpc # "start" =>
          wg = Cardinality({ r \in Recs : (mainpc = "loop" /\ r >= i)
                                              \/ opc[r] \in {"fetch", "wait"} })
    /\ (mainpc = "wait" /\ \A r \in Recs : ~Running(r)) => ENABLED S3EventReturn

\* a batch has returned in which one object failed at the fetch and the
\* other at the decode
C5_Witness ==
    /\ mainpc = "returned"
    /\ \E r, q \in Recs : oresult[r] = "geterr" /\ oresult[q] = "decodeerr"

(* C6: every key the pipeline PUTs contains the size marker and is screened *)
(* out by S3Event; an invocation on the notification of a stored object     *)
(* dispatches no object-worker, fetches nothing and puts nothing, so the    *)
(* closed loop adds no PUT to those of the first invocation.                *)
C6_AntiRecursion ==
    /\ \A p \in puts : ContainsMarker(p.key) /\ Screen(p.key) # "process"
    /\ \A n \in stored : ContainsMarker(n.key) /\ Screen(n.key) = "thumbnail"
    /\ redelivered =>
          /\ puts = {}
          /\ \A r \in Recs : disp[r] = 0 /\ gets[r] = 0 /\ opc[r] = "none"

\* the notification of a stored thumbnail was handled and S3Event returned
C6_Witness ==
    /\ redelivered
    /\ mainpc = "returned"
    /\ records[1] \in stored

\* key with only its trailing extension replaced by "_WxH" and the extension
ExpectedKey(key, size) ==
    SubSeq(key, 1, Len(key) - Len(Ext(key))) \o Marker(size) \o Ext(key)

(* C7: every PUT goes to the source key with only its trailing extension    *)
(* segment replaced by "_WxH" followed by that extension; nothing else of   *)
(* the key is changed.                                                      *)
C7_OnlyTrailingExtension ==
    \A p \in puts : p.key = ExpectedKey(records[p.rec].key, sizes[p.size])

Photo100 ==
    <<"p", "h", "o", "t", "o", "_", "1", "0", "0", "x", "1", "0", "0", ".", "j", "p", "g">>

Photo200 ==
    <<"p", "h", "o", "t", "o", "_", "2", "0", "0", "x", "2", "0", "0", ".", "j", "p", "g">>

(* C8: every PUT belongs to an object that was read, goes to the bucket of  *)
(* its notification and to thumbnailKey(source key, size); at the return an *)
(* object that was read and whose encodes all succeeded has exactly one PUT *)
(* per entry of the size list; photo.jpg under [100x100, 200x200] has the   *)
(* PUTs photo_100x100.jpg and photo_200x200.jpg.                            *)
C8_OnePutPerSize ==
    /\ \A p \in puts :
          /\ oresult[p.rec] = "ok"
          /\ p.bucket = records[p.rec].bucket
          /\ p.key = thumbnailKey(records[p.rec].key, sizes[p.size])
    /\ \A r \in Recs : \A s \in Szs : putn[r][s] <= 1
    /\ mainpc = "returned" =>
          \A r \in Recs :
              (oresult[r] = "ok" /\ \A s \in Szs : tresult[r][s] # "encodeerr") =>
                  /\ \A s \in Szs : putn[r][s] = 1 /\ PutAt(r, s)
                  /\ Cardinality(PutsOf(r)) = Len(sizes)
                  /\ (records[r].key = PhotoJpg /\ sizes = <<Pt(100, 100), Pt(200, 200)>>)
                        => { p.key : p \in PutsOf(r) } = {Photo100, Photo200}

\* photo.jpg was read and put under 100x100 and 200x200
C8_Witness ==
    /\ mainpc = "returned"
    /\ sizes = <<Pt(100, 100), Pt(200, 200)>>
    /\ \E r \in Recs :
        /\ records[r].key = PhotoJpg
        /\ { p.key : p \in PutsOf(r) } = {Photo100, Photo200}

\* the range loop of S3Event is past record r
Screened(r) == mainpc \in {"wait", "returned"} \/ (mainpc = "loop" /\ r < i)

(* C9: a record is dispatched, once, exactly when its key is eligible (no   *)
(* trailing '/', no size marker, extension .jpg in any case); a dispatched  *)
(* record is fetched once, any other record is never fetched or put; the    *)
(* batch {a.jpg, dir/} dispatches one object-worker, for a.jpg.             *)
C9_DispatchIffEligible ==
    /\ \A r \in Recs :
          /\ disp[r] <= 1
          /\ gets[r] <= disp[r]
          /\ disp[r] = 0 => opc[r] = "none" /\ PutsOf(r) = {}
          /\ Screened(r) => (disp[r] = 1 <=> Eligible(records[r].key))
          /\ ~Screened(r) => disp[r] = 0
    /\ mainpc = "returned" =>
          /\ \A r \in Recs : Eligible(records[r].key) => gets[r] = 1
          /\ (Len(records) = 2 /\ records[1].key = AJpg /\ records[2].key = DirKey)
                => disp = <<1, 0>>

\* the batch {a.jpg, dir/} has returned
C9_Witness ==
    /\ mainpc = "returned"
    /\ Len(records) = 2 /\ records[1].key = AJpg /\ records[2].key = DirKey
    /\ gets = <<1, 0>>

(* C10: a record whose key contains the size marker is never dispatched:    *)
(* no fetch, no size-worker and no PUT, whatever its extension.             *)
C10_MarkerKeysSkipped ==
    \A r \in Recs : ContainsMarker(records[r].key) =>
        /\ disp[r] = 0 /\ gets[r] = 0 /\ opc[r] = "none"
        /\ \A s \in Szs : tpc[r][s] = "none" /\ putn[r][s] = 0
        /\ PutsOf(r) = {}
        /\ Screened(r) => ~Eligible(records[r].key)

\* an upload named my2x4.jpg was skipped in a batch whose other object was
\* processed
C10_Witness ==
    /\ mainpc = "returned"
    /\ ~redelivered
    /\ \E r, q \in Recs :
        /\ records[r].key = MarkedJpg /\ IsJpg(records[r].key)
        /\ disp[r] = 0
        /\ tresult[q] = <<"ok", "ok">>

\* the line S3Event prints for a key that the rules, tried in the order
\* directory, thumbnail, file type, turn away; "none" for a key they let pass
FirstMatch(key) ==
    IF Len(key) > 0 /\ key[Len(key)] = "/" THEN "dir"
    ELSE IF ContainsMarker(key) THEN "thumbnail"
    ELSE IF ToLower(Ext(key)) # Str4(".", "j", "p", "g") THEN "unknown"
    ELSE "none"

Key1x1Dir == <<"1", "x", "1", "/">>

(* C11: the rules are tried in the order directory, thumbnail, file type    *)
(* and the first that matches decides: a record the loop has passed was     *)
(* turned away with the reason of the first matching rule, and dispatched   *)
(* only when none matched; a key that ends with '/' is turned away as a     *)
(* directory, also when it holds a size marker, and never gets a worker.    *)
C11_RulesInOrder ==
    \A r \in Recs :
        /\ Screened(r) =>
              /\ skip[r] = FirstMatch(records[r].key)
              /\ disp[r] = 1 <=> skip[r] = "none"
        /\ ~Screened(r) => skip[r] = "none"
        /\ (Len(records[r].key) > 0 /\ records[r].key[Len(records[r].key)] = "/") =>
              /\ skip[r] \in {"none", "dir"}
              /\ disp[r] = 0 /\ gets[r] = 0 /\ opc[r] = "none" /\ PutsOf(r) = {}

\* the key 1x1/ ends with '/' and holds a size marker; it was turned away
\* as a directory
C11_Witness ==
    /\ mainpc = "returned"
    /\ \E r \in Recs :
        /\ records[r].key = Key1x1Dir
        /\ ContainsMarker(records[r].key)
        /\ skip[r] = "dir"
        /\ disp[r] = 0

(* C12: thumbnailKey is a function of (key, size) that is injective on     *)
(* sizes: two PUTs for the same source key go to the same output key        *)
(* exactly when their sizes are the same (width, height) pair.              *)
C12_InjectiveOnSizes ==
    \A p, q \in puts :
        p.rec = q.rec => (p.key = q.key <=> sizes[p.size] = sizes[q.size])

\* a.jpg was put under 1x11 and under 11x1, to a_1x11.jpg and a_11x1.jpg
C12_Witness ==
    /\ sizes = <<Pt(1, 11), Pt(11, 1)>>
    /\ \E p, q \in puts :
        /\ records[p.rec].key = AJpg /\ p.rec = q.rec
        /\ p.size = 1 /\ q.size = 2
        /\ p.key = <<"a", "_", "1", "x", "1", "1", ".", "j", "p", "g">>
        /\ q.key = <<"a", "_", "1", "1", "x", "1", ".", "j", "p", "g">>

(* C13: the size list readConfig returns holds pairwise distinct (width,    *)
(* height) pairs, and two size-workers of one object never PUT to the same  *)
(* output key.                                                              *)
C13_DistinctSizes ==
    procpc = "serving" =>
        /\ \A s, u \in Szs : s # u => sizes[s] # sizes[u]
        /\ \A p, q \in puts : (p.rec = q.rec /\ p.size # q.size) => p.key # q.key

\* s[a..b] is <digits>x<digits>
IsSizeItem(s, a, b) ==
    \E e \in (a + 1)..(b - 1) :
        /\ s[e] = "x"
        /\ \A n \in a..b : n # e => IsDigit(s[n])

\* s is a comma-separated list of one or more <digits>x<digits> items
IsSizeList(s) ==
    LET commas == {0, Len(s) + 1} \cup { n \in 1..Len(s) : s[n] = "," }
    IN  \A a, b \in commas :
            (a < b /\ ~\E n \in commas : a < n /\ n < b) => IsSizeItem(s, a + 1, b - 1)

\* s is unset or a decimal number with an optional sign
IsNumberOrUnset(s) ==
    \/ Len(s) = 0
    \/ \A n \in 1..Len(s) : IsDigit(s[n])
    \/ Len(s) > 1 /\ s[1] \in {"+", "-"} /\ \A n \in 2..Len(s) : IsDigit(s[n])

(* C14: main ends without serving whenever AccessKeyID, SecretAccessKey,    *)
(* Region or Sizes is missing or Sizes or MaxRetries cannot be parsed, and   *)
(* then no step of S3Event is taken; a configuration main serves with has   *)
(* maxRetry >= 0 and only sizes of width > 0 and height > 0.                *)
C14_ConfigValidated ==
    /\ procpc = "exited" => mainpc = "start" /\ wg = 0 /\ puts = {}
    /\ procpc = "serving" =>
          /\ env.AccessKeyID # <<>> /\ env.SecretAccessKey # <<>> /\ env.Region # <<>>
          /\ IsSizeList(env.Sizes)
          /\ IsNumberOrUnset(env.MaxRetries)
          /\ maxRetry >= 0
          /\ \A s \in Szs : sizes[s].X > 0 /\ sizes[s].Y > 0

\* the part of C14 that the code keeps: a missing required variable or a
\* number beyond the range of int ends main, and nothing is served
ConfigErrorsEndMain ==
    /\ procpc = "exited" => mainpc = "start" /\ wg = 0 /\ puts = {}
    /\ procpc = "serving" =>
          /\ env.AccessKeyID # <<>> /\ env.SecretAccessKey # <<>> /\ env.Region # <<>>
          /\ env.Sizes # <<>>
          /\ env.Sizes # TooWide

(* C15: every PutObjectWithContext call, of every object and size, whether  *)
(* it succeeds or fails, carries the storage class STANDARD and the         *)
(* metadata kind=thumbnail.                                                 *)
C15_PutsAreTagged ==
    /\ \A p \in puts : p.class = "STANDARD" /\ p.kind = "thumbnail"
    /\ \A r \in Recs : \A s \in Szs :
          putn[r][s] > 0 =>
              \E p \in puts : /\ p.rec = r /\ p.size = s
                              /\ p.class = "STANDARD" /\ p.kind = "thumbnail"

\* two objects under two sizes: four PUTs, one of which failed
C15_Witness ==
    /\ mainpc = "returned"
    /\ Cardinality(puts) = 4
    /\ \E r, q \in Recs : tresult[r] = <<"ok", "puterr">> /\ tresult[q] = <<"ok", "ok">>
    /\ \A p \in puts : p.kind = "thumbnail"

\* the notification r is over: turned away by the loop, or its object-worker
\* has finished
Counted(r) == (Screened(r) /\ skip[r] # "none") \/ opc[r] = "done"

(* C17: after wg.Add the outer counter is the number of records minus the   *)
(* records that are over, each counted once whether it was turned away, its *)
(* read failed or its size-workers all finished; the inner counter of an    *)
(* object that was read is the number of sizes minus its finished           *)
(* size-workers, failed ones included, and zero for any other object;       *)
(* no counter is negative; a counter is zero only when all its units are    *)
(* done.                                                                    *)
C17_BarrierAccounting ==
    /\ wg >= 0
    /\ mainpc # "start" => wg = Len(records) - Cardinality({ r \in Recs : Counted(r) })
    /\ (mainpc # "start" /\ wg = 0) => \A r \in Recs : Counted(r) /\ ~Running(r)
    /\ \A r \in Recs :
          /\ twg[r] >= 0
          /\ twg[r] = IF oresult[r] = "ok"
                      THEN Len(sizes) - Cardinality({ s \in Szs : tpc[r][s] = "done" })
                      ELSE 0
          /\ (opc[r] = "wait" /\ twg[r] = 0) => \A s \in Szs : tpc[r][s] = "done"
          /\ \A s \in Szs :
                tpc[r][s] = "done" <=> tresult[r][s] \in {"ok", "puterr", "encodeerr"}
          /\ opc[r] = "done" => (Failed(r) \/ \A s \in Szs : tpc[r][s] = "done")

\* a batch of a skipped record and an object one of whose size-workers
\* failed has returned with both counters at zero
C17_Witness ==
    /\ mainpc = "returned"
    /\ wg = 0
    /\ \E r, q \in Recs :
        /\ skip[r] = "dir"
        /\ tresult[q] = <<"ok", "encodeerr">>
        /\ twg[q] = 0

(* C18: a size-worker of an object exists only after the one read of that   *)
(* object has returned the image: no resize, encode or PUT of an object     *)
(* whose read has not finished or has failed.  Apart from that nothing      *)
(* orders the workers: a worker that has a step to take can take it         *)
(* whatever its siblings are doing.                                         *)
C18_ReadBeforeSizeWorkers ==
    /\ \A r \in Recs :
          /\ \A s \in Szs :
                (tpc[r][s] # "none" \/ tresult[r][s] # "none" \/ putn[r][s] > 0) =>
                    oresult[r] = "ok" /\ gets[r] = 1 /\ opc[r] \in {"wait", "done"}
          /\ opc[r] = "fetch" => ENABLED onImageCreatedFanOut(r)
          /\ \A s \in Szs :
                /\ tpc[r][s] = "start" => ENABLED createThumbnail(r, s, TRUE)
                /\ tpc[r][s] = "put" => ENABLED saveThumbnail(r, s, TRUE)
    /\ \A p \in puts : oresult[p.rec] = "ok"

\* one object has been read and one of its size-workers has finished
\* before the other has begun, while the read of the sibling object is
\* still to come
C18_Witness ==
    \E r, q \in Recs :
        /\ opc[r] = "wait" /\ oresult[r] = "ok"
        /\ tpc[r] = <<"start", "done">>
        /\ opc[q] = "fetch" /\ oresult[q] = "none"

(* C19: once the context of the invocation is done, no fetch and no PUT     *)
(* succeeds: every one that returns after that moment returns the context's *)
(* error and nothing more is stored; a call in flight is free to return     *)
(* with that error, so no worker is held by it; the invocation still        *)
(* returns.                                                                 *)
C19_CancelObserved ==
    /\ [][(cancelled /\ cancelled') =>
            /\ stored' = stored
            /\ \A r \in Recs :
                  /\ gets'[r] # gets[r] => oresult'[r] = "canceled"
                  /\ \A s \in Szs : putn'[r][s] # putn[r][s] => tresult'[r][s] = "canceled"]_vars
    /\ [](cancelled =>
            \A r \in Recs :
                /\ opc[r] = "fetch" => ENABLED onImageCreatedFail(r, "canceled")
                /\ \A s \in Szs : tpc[r][s] = "put" => ENABLED saveThumbnail(r, s, FALSE))
    /\ (cancelled ~> mainpc = "returned")

\* the context was cancelled while one read and one PUT were to come; both
\* returned its error and the invocation has returned
C19_Witness ==
    /\ cancelled
    /\ mainpc = "returned"
    /\ \E r, q \in Recs : \E s \in Szs :
        /\ oresult[r] = "canceled"
        /\ oresult[q] = "ok" /\ tresult[q][s] = "canceled"

\* the object-worker of r in the earlier handler has ended
Ended(r) == opc[r] \in {"done", "returned"}

(* C20: in the earlier handler an object-worker that has ended, with or      *)
(* without a failure, has decremented the outer counter, so that handler    *)
(* returns once every object-worker of the batch has ended.                 *)
C20_LegacyFailuresCounted ==
    /\ mainpc # "start" =>
          wg = Len(records) - Cardinality({ r \in Recs : skip[r] = "dir" \/ Ended(r) })
    /\ (mainpc = "wait" /\ \A r \in Recs : skip[r] = "dir" \/ Ended(r)) =>
          ENABLED handlerReturn

\* what the earlier handler does keep: wg counts the records that are
\* neither directories nor object-workers that reached their wg.Done()
LegacyCountsCompletedOnly ==
    mainpc # "start" =>
        wg = Len(records) - Cardinality({ r \in Recs : skip[r] = "dir" \/ opc[r] = "done" })

====
